---- MODULE Spec2Model ----
(***************************************************************************)
(* Model of the banner generators scripts/generate-banner-v2.py and        *)
(* scripts/generate-banner.py.                                             *)
(*                                                                         *)
(* An image is a record [mode, size, layers]: layers is the sequence of    *)
(* draw calls applied to it so far.  Images live in a heap and the Python  *)
(* names (img, draw, gradient, ...) hold heap indices, so that rebinding a *)
(* name to a new image and drawing through an older ImageDraw handle are   *)
(* told apart.  Coordinates of draw calls are kept in 64ths of a pixel:    *)
(* draw_icon computes x + k * (size / 64), which is (64x + k*size) / 64.   *)
(***************************************************************************)
EXTENDS Integers, Sequences, FiniteSets, TLC

VARIABLES
    script,     \* which script runs: "v1" (generate-banner.py), "v2", or "icon" (draw_icon alone)
    pc,         \* position of the run inside generate_banner
    env,        \* the file system the run sees: logo file, fonts, output directory, injected fault
    rnd,        \* state of the imported random module (seeded afresh by every process)
    heap,       \* the images allocated so far
    img, draw, gradient, logo, glow, img_rgb,   \* v2 names: heap indices, 0 = not bound
    overlay, overlay2,                          \* v1 names
    fonts,      \* font_logo, font_name, font_title, font_subtitle
    k,          \* index of the next entry of icon_positions
    file,       \* web/static/banner.jpg: <<>> or <<the written image>>
    writes,     \* number of times this run wrote the file
    trace,      \* the steps this run executed, in order
    run,                        \* the number of this run
    prevFile, prevTrace, prevHeap, prevRnd,     \* what the previous run wrote, executed, built, and its random state
    args, issued                \* draw_icon called alone: its arguments and the draw calls it issued

vars == <<script, pc, env, rnd, heap, img, draw, gradient, logo, glow, img_rgb,
          overlay, overlay2, fonts, k, file, writes, trace, run, prevFile, prevTrace, prevHeap, prevRnd,
          args, issued>>

----------------------------------------------------------------------------
(* Bounds of the model *)

MaxRuns == 2        \* generate_banner is run this many times in a row
MaxSize == 12       \* draw_icon alone is tried with every size 1..MaxSize (and the sizes of the icon list)

(* Program constants *)

width == 1200
height == 630
OpacityDen == 100   \* the opacities of icon_positions are written in hundredths
logo_height == 340
logo_x == 40

Max(a, b) == IF a >= b THEN a ELSE b
Abs(a) == IF a >= 0 THEN a ELSE -a
Range(s) == {s[j] : j \in 1..Len(s)}

CanvasSize == <<width, height>>

----------------------------------------------------------------------------
(* Draw calls *)

Layer(kind, pts, fill, w, text, font) ==
    [kind |-> kind, pts |-> pts, fill |-> fill, width |-> w, text |-> text,
     font |-> font, blur |-> 0, cols |-> <<>>]

Rectangle(p1, p2, outline, w) == Layer("rectangle", <<p1, p2>>, outline, w, "", "")
Line(pts, fill, w) == Layer("line", pts, fill, w, "", "")
Ellipse(p1, p2, fill) == Layer("ellipse", <<p1, p2>>, fill, 0, "", "")
Text(xy, text, font, fill) == Layer("text", <<xy>>, fill, 0, text, font)
Px(x, y) == <<64 * x, 64 * y>>

----------------------------------------------------------------------------
(* draw_icon *)

IconTypes == {"chip", "terminal", "wave", "resistor"}

\* A bug draw_icon could have: the alpha rounded to nearest instead of truncated
IconAlphaRounded(op) == (2 * op * 255 + OpacityDen) \div (2 * OpacityDen)

\* alpha = int(opacity * 255), opacity = op / OpacityDen: truncation
IconAlpha(op) == (op * 255) \div OpacityDen

\* max(1, int(2*s)) and max(1, int(s)) with s = size / 64
StrokeWidth(size) == Max(1, (2 * size) \div 64)
BandWidth(size) == Max(1, size \div 64)

\* A bug draw_icon could have: grid offsets not scaled by s
AtUnscaled(x, y, size, kx, ky) == <<64 * x + kx * 64, 64 * y + ky * 64>>

\* (x + kx*s, y + ky*s) in 64ths of a pixel
At(x, y, size, kx, ky) == <<64 * x + kx * size, 64 * y + ky * size>>

ChipPins == <<20, 28, 36, 44>>

ChipCalls(x, y, size, c) ==
    LET w == StrokeWidth(size)
        Pin(j) == IF j % 2 = 1
                  THEN Line(<<At(x, y, size, ChipPins[(j + 1) \div 2], 12),
                              At(x, y, size, ChipPins[(j + 1) \div 2], 16)>>, c, w)
                  ELSE Line(<<At(x, y, size, ChipPins[j \div 2], 48),
                              At(x, y, size, ChipPins[j \div 2], 52)>>, c, w)
    IN  <<Rectangle(At(x, y, size, 16, 16), At(x, y, size, 48, 48), c, w),
          Rectangle(At(x, y, size, 24, 24), At(x, y, size, 40, 40), c, w)>>
        \o [j \in 1..8 |-> Pin(j)]

TerminalCalls(x, y, size, c) ==
    LET w == StrokeWidth(size)
    IN  <<Rectangle(At(x, y, size, 8, 12), At(x, y, size, 56, 52), c, w),
          Line(<<At(x, y, size, 18, 26), At(x, y, size, 24, 30), At(x, y, size, 18, 34)>>, c, w),
          Line(<<At(x, y, size, 32, 34), At(x, y, size, 40, 34)>>, c, w)>>

\* for i in range(16, 49, 4): wave_y = 32 + 8 * (1 if (i // 8) % 2 else -1)
WaveX(j) == 16 + 4 * (j - 1)
WaveY(i) == 32 + 8 * (IF (i \div 8) % 2 # 0 THEN 1 ELSE -1)
WavePoints(x, y, size) == [j \in 1..9 |-> At(x, y, size, WaveX(j), WaveY(WaveX(j)))]

WaveCalls(x, y, size, c) ==
    LET w == StrokeWidth(size)
        points == WavePoints(x, y, size)
    IN  <<Rectangle(At(x, y, size, 8, 12), At(x, y, size, 56, 52), c, w)>>
        \o (IF Len(points) > 1 THEN <<Line(points, c, w)>> ELSE <<>>)

ResistorBands == <<20, 26, 32, 38>>

ResistorCalls(x, y, size, c) ==
    LET w == StrokeWidth(size)
    IN  <<Rectangle(At(x, y, size, 16, 28), At(x, y, size, 48, 36), c, w)>>
        \o [j \in 1..4 |-> Line(<<At(x, y, size, ResistorBands[j], 28),
                                  At(x, y, size, ResistorBands[j], 36)>>, c, BandWidth(size))]
        \o <<Line(<<At(x, y, size, 8, 32), At(x, y, size, 16, 32)>>, c, w),
             Line(<<At(x, y, size, 48, 32), At(x, y, size, 56, 32)>>, c, w)>>

\* A bug draw_icon could have: the last branch an else, taken by every other tag
DrawIconFallthrough(x, y, size, icon_type, color, op) ==
    LET color_with_alpha == color \o <<IconAlpha(op)>>
    IN  CASE icon_type = "chip"     -> ChipCalls(x, y, size, color_with_alpha)
          [] icon_type = "terminal" -> TerminalCalls(x, y, size, color_with_alpha)
          [] icon_type = "wave"     -> WaveCalls(x, y, size, color_with_alpha)
          [] OTHER                  -> ResistorCalls(x, y, size, color_with_alpha)

\* The draw calls draw_icon issues on its draw target, in order.
DrawIcon(x, y, size, icon_type, color, op) ==
    LET color_with_alpha == color \o <<IconAlpha(op)>>
    IN  CASE icon_type = "chip"     -> ChipCalls(x, y, size, color_with_alpha)
          [] icon_type = "terminal" -> TerminalCalls(x, y, size, color_with_alpha)
          [] icon_type = "wave"     -> WaveCalls(x, y, size, color_with_alpha)
          [] icon_type = "resistor" -> ResistorCalls(x, y, size, color_with_alpha)
          [] OTHER                  -> <<>>

Icon(x, y, size, t, color, op) ==
    [x |-> x, y |-> y, size |-> size, type |-> t, color |-> color, op |-> op]

icon_positions ==
    << Icon(80, 80, 48, "chip", <<102, 126, 234>>, 8),
       Icon(180, 450, 32, "terminal", <<14, 165, 233>>, 12),
       Icon(950, 120, 56, "wave", <<244, 114, 182>>, 10),
       Icon(1050, 500, 40, "resistor", <<102, 126, 234>>, 9),
       Icon(280, 150, 24, "chip", <<14, 165, 233>>, 15),
       Icon(920, 380, 36, "terminal", <<244, 114, 182>>, 11),
       Icon(120, 520, 28, "wave", <<102, 126, 234>>, 13),
       Icon(1100, 250, 32, "chip", <<14, 165, 233>>, 10) >>

\* A bug generate_banner could have: icon anchors scattered with the random module
IconCallsRandom(ic) == DrawIcon(ic.x + rnd, ic.y, ic.size, ic.type, ic.color, ic.op)

IconCalls(ic) == DrawIcon(ic.x, ic.y, ic.size, ic.type, ic.color, ic.op)

----------------------------------------------------------------------------
(* Images *)

ImageNew(mode, size, fill) == [mode |-> mode, size |-> size, fill |-> fill, layers |-> <<>>]

\* ImageDraw calls through a handle bound to heap[target]
DrawOn(h, target, calls) == [h EXCEPT ![target].layers = @ \o calls]

Translate(layer, pos) ==
    [layer EXCEPT !.pts = [j \in 1..Len(@) |-> <<@[j][1] + 64 * pos[1], @[j][2] + 64 * pos[2]>>]]

\* A bug the canvas handling could have: the destination grown to hold the pasted image
PasteGrow(dst, src, pos) ==
    [dst EXCEPT !.layers = @ \o [j \in 1..Len(src.layers) |-> Translate(src.layers[j], pos)],
                !.size = <<Max(@[1], pos[1] + src.size[1]), Max(@[2], pos[2] + src.size[2])>>]

\* dst.paste(src, pos, mask): src's content lands on dst at pos; dst keeps its mode and size
Paste(dst, src, pos) ==
    [dst EXCEPT !.layers = @ \o [j \in 1..Len(src.layers) |-> Translate(src.layers[j], pos)]]

\* Image.alpha_composite(im1, im2): a NEW image, im2 over im1
AlphaComposite(im1, im2) == [im1 EXCEPT !.layers = @ \o im2.layers]

Convert(im, mode) == [im EXCEPT !.mode = mode]

----------------------------------------------------------------------------
(* The per-column gradient of generate-banner-v2.py *)

CeilDiv(a, b) == (a + b - 1) \div b

\* Columns where the binary floating-point value of (ratio - 0.5) * 2 lies just
\* below the exact one, so that int() truncates the red channel one lower.
FloatShortfall == {720, 840, 1140}

\* int(25 + 10 * abs(ratio - 0.5) * 2), ratio = i / width
GradientAlpha(i) == 25 + (10 * Abs(2 * i - width)) \div width

GradientColumn(i) ==
    IF 2 * i < width
    THEN \* t = ratio * 2
         << 102 - CeilDiv(88 * 2 * i, width),
            126 + (39 * 2 * i) \div width,
            234 - CeilDiv(2 * i, width),
            GradientAlpha(i) >>
    ELSE \* t = (ratio - 0.5) * 2
         << 14 + (230 * (2 * i - width)) \div width - (IF i \in FloatShortfall THEN 1 ELSE 0),
            165 - CeilDiv(51 * (2 * i - width), width),
            233 - CeilDiv(51 * (2 * i - width), width),
            GradientAlpha(i) >>

\* for i in range(width): grad_draw.line([(i, 0), (i, height)], fill=(r, g, b, alpha))
\* cols[i + 1] is the fill of the line drawn at column i
GradientLines ==
    [Layer("columns", <<Px(0, 0), Px(width - 1, height)>>, <<>>, 0, "", "")
        EXCEPT !.cols = [c \in 1..width |-> GradientColumn(c - 1)]]

----------------------------------------------------------------------------
(* The file system a run sees *)

LogoDims == {<<680, 340>>, <<1, 400>>, <<4000, 340>>}

\* An Exception raised inside the logo try block at the step of that name
Faults == {"resize", "blur", "paste_glow_1", "paste_glow_2", "paste_glow_3", "paste_logo"}

LogoFile(kind, w, h) == [kind |-> kind, w |-> w, h |-> h]

Envs ==
    [logo : {LogoFile("missing", 0, 0), LogoFile("corrupt", 0, 0)}, fault : {"none"},
     bold : BOOLEAN, regular : BOOLEAN, outDir : BOOLEAN]
    \cup
    [logo : {LogoFile("ok", d[1], d[2]) : d \in LogoDims}, fault : Faults \cup {"none"},
     bold : BOOLEAN, regular : BOOLEAN, outDir : BOOLEAN]

\* the states the random module can start in
Seeds == {0, 1}

Bold(size) == <<"DejaVuSans-Bold.ttf", size>>
Regular(size) == <<"DejaVuSans.ttf", size>>
Default == <<"load_default", 0>>
NoFont == <<"", 0>>

NoArgs == Icon(0, 0, 1, "chip", <<0, 0, 0>>, 0)

Init ==
    /\ script \in {"v1", "v2"}
    /\ pc = "start"
    /\ env \in Envs
    /\ script = "v1" => env.logo.kind = "missing"      \* generate-banner.py reads no logo file
    /\ rnd \in Seeds
    /\ heap = <<>>
    /\ img = 0 /\ draw = 0 /\ gradient = 0 /\ logo = 0 /\ glow = 0 /\ img_rgb = 0
    /\ overlay = 0 /\ overlay2 = 0
    /\ fonts = [logo |-> NoFont, name |-> NoFont, title |-> NoFont, subtitle |-> NoFont]
    /\ k = 1
    /\ file = <<>>
    /\ writes = 0
    /\ trace = <<>>
    /\ run = 1 /\ prevFile = <<>> /\ prevTrace = <<>> /\ prevHeap = <<>> /\ prevRnd = 0
    /\ args = NoArgs /\ issued = <<>>

Step(name) == trace' = Append(trace, name)

----------------------------------------------------------------------------
(* generate_banner of generate-banner-v2.py *)

\* img = Image.new('RGBA', ...); draw = ImageDraw.Draw(img, 'RGBA')
NewCanvas ==
    /\ script = "v2" /\ pc = "start"
    /\ heap' = Append(heap, ImageNew("RGBA", CanvasSize, <<15, 23, 42, 255>>))
    /\ img' = Len(heap) + 1
    /\ draw' = Len(heap) + 1
    /\ pc' = "gradient"
    /\ Step("canvas")
    /\ UNCHANGED <<script, env, rnd, gradient, logo, glow, img_rgb, overlay, overlay2,
                   fonts, k, file, writes, run, prevFile, prevTrace, prevHeap, prevRnd, args, issued>>

\* gradient = Image.new(...); grad_draw = ImageDraw.Draw(gradient); the column loop
DrawGradient ==
    /\ pc = "gradient"
    /\ heap' = Append(heap, DrawOn(<<ImageNew("RGBA", CanvasSize, <<0, 0, 0, 0>>)>>, 1,
                                   <<GradientLines>>)[1])
    /\ gradient' = Len(heap) + 1
    /\ pc' = "composite"
    /\ Step("gradient")
    /\ UNCHANGED <<script, env, rnd, img, draw, logo, glow, img_rgb, overlay, overlay2,
                   fonts, k, file, writes, run, prevFile, prevTrace, prevHeap, prevRnd, args, issued>>

\* img = Image.alpha_composite(img, gradient): img is rebound, draw is not
Composite ==
    /\ pc = "composite"
    /\ heap[img].mode = "RGBA" /\ heap[gradient].mode = "RGBA"
    /\ heap[img].size = heap[gradient].size
    /\ heap' = Append(heap, AlphaComposite(heap[img], heap[gradient]))
    /\ img' = Len(heap) + 1
    /\ pc' = "icons"
    /\ Step("composite")
    /\ UNCHANGED <<script, env, rnd, draw, gradient, logo, glow, img_rgb, overlay, overlay2,
                   fonts, k, file, writes, run, prevFile, prevTrace, prevHeap, prevRnd, args, issued>>

\* for x, y, size, icon, color, opacity in icon_positions: draw_icon(draw, ...)
DrawIcons ==
    /\ pc = "icons"
    /\ k <= Len(icon_positions)
    /\ heap' = DrawOn(heap, draw, IconCalls(icon_positions[k]))
    /\ k' = k + 1
    /\ pc' = IF k = Len(icon_positions) THEN "logo" ELSE "icons"
    /\ Step("icon")
    /\ UNCHANGED <<script, env, rnd, img, draw, gradient, logo, glow, img_rgb, overlay,
                   overlay2, fonts, file, writes, run, prevFile, prevTrace, prevHeap, prevRnd, args, issued>>

----------------------------------------------------------------------------
(* The logo: try ... except Exception, with the 'JW' fallback *)

Raises(step) == env.fault = step

\* logo_width = int(logo_height * aspect), aspect = logo.width / logo.height
LogoWidth(w, h) == (logo_height * w) \div h

\* logo_y = (height - logo_height) // 2
logo_y == (height - logo_height) \div 2

Bitmap(name, w, h) == Layer("bitmap", <<Px(0, 0), Px(w, h)>>, <<>>, 0, name, "")

Blurred(im, radius) == [im EXCEPT !.layers = [j \in 1..Len(@) |-> [@[j] EXCEPT !.blur = radius]]]

v2frame == <<script, env, rnd, gradient, img_rgb, overlay, overlay2, k, file, writes,
             run, prevFile, prevTrace, prevHeap, prevRnd, args, issued>>

\* logo = Image.open('docs/brand/Logo.png').convert('RGBA')
LogoOpen ==
    /\ pc = "logo"
    /\ Step("logo_open")
    /\ \/ /\ env.logo.kind = "ok"
          /\ heap' = Append(heap, [ImageNew("RGBA", <<env.logo.w, env.logo.h>>, <<0, 0, 0, 0>>)
                                     EXCEPT !.layers = <<Bitmap("Logo.png", env.logo.w, env.logo.h)>>])
          /\ logo' = Len(heap) + 1
          /\ pc' = "resize"
       \/ /\ env.logo.kind # "ok"                     \* FileNotFoundError, UnidentifiedImageError
          /\ pc' = "fallback"
          /\ UNCHANGED <<heap, logo>>
    /\ UNCHANGED <<v2frame, img, draw, glow, fonts>>

\* logo = logo.resize((logo_width, logo_height), LANCZOS): raises for a width of 0
LogoResize ==
    /\ pc = "resize"
    /\ Step("resize")
    /\ LET lw == LogoWidth(heap[logo].size[1], heap[logo].size[2])
       IN  \/ /\ ~Raises("resize") /\ lw > 0
              /\ heap' = Append(heap, [heap[logo] EXCEPT !.size = <<lw, logo_height>>,
                                          !.layers = <<Bitmap("Logo.png", lw, logo_height)>>])
              /\ logo' = Len(heap) + 1
              /\ pc' = "blur"
           \/ /\ Raises("resize") \/ lw <= 0
              /\ pc' = "fallback"
              /\ UNCHANGED <<heap, logo>>
    /\ UNCHANGED <<v2frame, img, draw, glow, fonts>>

\* glow = logo.copy(); glow = glow.filter(ImageFilter.GaussianBlur(radius=30))
LogoGlow ==
    /\ pc = "blur"
    /\ Step("blur")
    /\ \/ /\ ~Raises("blur")
          /\ heap' = heap \o <<heap[logo], Blurred(heap[logo], 30)>>
          /\ glow' = Len(heap) + 2
          /\ pc' = "paste_glow_1"
       \/ /\ Raises("blur")
          /\ pc' = "fallback"
          /\ UNCHANGED <<heap, glow>>
    /\ UNCHANGED <<v2frame, img, draw, logo, fonts>>

GlowStep == [paste_glow_1 |-> "paste_glow_2", paste_glow_2 |-> "paste_glow_3",
             paste_glow_3 |-> "paste_logo"]

\* img.paste(glow, (logo_x, logo_y), glow), three times
PasteGlow ==
    /\ pc \in DOMAIN GlowStep
    /\ Step("paste_glow")
    /\ \/ /\ ~Raises(pc)
          /\ heap' = [heap EXCEPT ![img] = Paste(@, heap[glow], <<logo_x, logo_y>>)]
          /\ pc' = GlowStep[pc]
       \/ /\ Raises(pc)
          /\ pc' = "fallback"
          /\ UNCHANGED heap
    /\ UNCHANGED <<v2frame, img, draw, logo, glow, fonts>>

\* img.paste(logo, (logo_x, logo_y), logo)
PasteLogo ==
    /\ pc = "paste_logo"
    /\ Step("paste_logo")
    /\ \/ /\ ~Raises("paste_logo")
          /\ heap' = [heap EXCEPT ![img] = Paste(@, heap[logo], <<logo_x, logo_y>>)]
          /\ pc' = "fonts"
       \/ /\ Raises("paste_logo")
          /\ pc' = "fallback"
          /\ UNCHANGED heap
    /\ UNCHANGED <<v2frame, img, draw, logo, glow, fonts>>

JWMark == Text(Px(100, 250), "JW", Bold(140), <<14, 165, 233, 255>>)

\* A bug the fallback could have: no inner try, so a missing bold font ends the run
FallbackUncaught ==
    /\ pc = "fallback"
    /\ Step("fallback")
    /\ \/ /\ env.bold
          /\ fonts' = [fonts EXCEPT !.logo = Bold(140)]
          /\ heap' = DrawOn(heap, draw, <<JWMark>>)
          /\ pc' = "fonts"
       \/ /\ ~env.bold
          /\ pc' = "crashed"
          /\ UNCHANGED <<fonts, heap>>
    /\ UNCHANGED <<v2frame, img, draw, logo, glow>>

\* except Exception: print the warning; try: font_logo = truetype(bold, 140);
\* draw.text((100, 250), 'JW', ...) except: pass
Fallback ==
    /\ pc = "fallback"
    /\ Step("fallback")
    /\ \/ /\ env.bold
          /\ fonts' = [fonts EXCEPT !.logo = Bold(140)]
          /\ heap' = DrawOn(heap, draw, <<JWMark>>)
       \/ /\ ~env.bold
          /\ UNCHANGED <<fonts, heap>>
    /\ pc' = "fonts"
    /\ UNCHANGED <<v2frame, img, draw, logo, glow>>

----------------------------------------------------------------------------
(* Text, flatten, save *)

text_x == 480

\* try: three truetype loads; except: three load_default()
LoadFonts ==
    /\ pc = "fonts"
    /\ Step("fonts")
    /\ fonts' = IF env.bold /\ env.regular
                THEN [fonts EXCEPT !.name = Bold(60), !.title = Regular(30), !.subtitle = Regular(21)]
                ELSE [fonts EXCEPT !.name = Default, !.title = Default, !.subtitle = Default]
    /\ pc' = "text"
    /\ UNCHANGED <<v2frame, heap, img, draw, logo, glow>>

\* (the multiplication signs of the third line are written x here)
TextLines(f) ==
    << Text(Px(text_x, 230), "Josh Wentworth", f.name, <<255, 255, 255, 255>>),
       Text(Px(text_x, 315), "Multidisciplinary Engineer", f.title, <<148, 163, 184, 255>>),
       Text(Px(text_x, 375), "Software x Hardware x Fabrication", f.subtitle, <<14, 165, 233, 255>>) >>

\* draw = ImageDraw.Draw(img, 'RGBA'); three draw.text calls
DrawText ==
    /\ pc = "text"
    /\ Step("text")
    /\ draw' = img
    /\ heap' = DrawOn(heap, img, TextLines(fonts))
    /\ pc' = "flatten"
    /\ UNCHANGED <<v2frame, img, logo, glow, fonts>>

\* img_rgb = Image.new('RGB', (width, height), (15, 23, 42)); img_rgb.paste(img, (0, 0), img)
Flatten ==
    /\ pc = "flatten"
    /\ Step("flatten")
    /\ heap' = Append(heap, Paste(ImageNew("RGB", CanvasSize, <<15, 23, 42>>), heap[img], <<0, 0>>))
    /\ img_rgb' = Len(heap) + 1
    /\ pc' = "save"
    /\ UNCHANGED <<script, env, rnd, img, draw, gradient, logo, glow, overlay, overlay2,
                   fonts, k, file, writes, run, prevFile, prevTrace, prevHeap, prevRnd, args, issued>>

Jpeg(im) == [format |-> "JPEG", quality |-> 95, size |-> im.size, fill |-> im.fill,
             layers |-> im.layers]

\* A bug generate_banner could have: the save placed before the text is drawn
SaveBeforeText ==
    /\ pc = "text"
    /\ Step("save")
    /\ env.outDir
    /\ file' = <<Jpeg(heap[img])>>
    /\ writes' = writes + 1
    /\ pc' = "done"
    /\ UNCHANGED <<script, env, rnd, heap, img, draw, gradient, logo, glow, img_rgb, overlay,
                   overlay2, fonts, k, run, prevFile, prevTrace, prevHeap, prevRnd, args, issued>>

\* img_rgb.save('web/static/banner.jpg', 'JPEG', quality=95, optimize=True):
\* not inside any try; it raises when web/static cannot be written
Save ==
    /\ pc = "save"
    /\ Step("save")
    /\ \/ /\ env.outDir
          /\ file' = <<Jpeg(heap[img_rgb])>>
          /\ writes' = writes + 1
          /\ pc' = "done"
       \/ /\ ~env.outDir
          /\ pc' = "crashed"
          /\ UNCHANGED <<file, writes>>
    /\ UNCHANGED <<script, env, rnd, heap, img, draw, gradient, logo, glow, img_rgb, overlay,
                   overlay2, fonts, k, run, prevFile, prevTrace, prevHeap, prevRnd, args, issued>>

\* The script is run again in a new process on the same file system.
Rerun ==
    /\ pc \in {"done", "crashed"}
    /\ run < MaxRuns
    /\ run' = run + 1
    /\ prevFile' = file
    /\ prevTrace' = trace
    /\ prevHeap' = heap
    /\ prevRnd' = rnd
    /\ rnd' \in Seeds
    /\ pc' = "start"
    /\ heap' = <<>>
    /\ img' = 0 /\ draw' = 0 /\ gradient' = 0 /\ logo' = 0 /\ glow' = 0 /\ img_rgb' = 0
    /\ overlay' = 0 /\ overlay2' = 0
    /\ fonts' = [logo |-> NoFont, name |-> NoFont, title |-> NoFont, subtitle |-> NoFont]
    /\ k' = 1
    /\ writes' = 0
    /\ trace' = <<>>
    /\ UNCHANGED <<script, env, file, args, issued>>

----------------------------------------------------------------------------
(* generate_banner of generate-banner.py *)

v1frame == <<script, env, rnd, gradient, logo, glow, img_rgb, k, run, prevFile, prevTrace, prevHeap, prevRnd,
             args, issued>>

\* img = Image.new('RGB', (width, height), color='#0f172a'); draw = ImageDraw.Draw(img)
V1NewCanvas ==
    /\ script = "v1" /\ pc = "start"
    /\ Step("canvas")
    /\ heap' = Append(heap, ImageNew("RGB", CanvasSize, <<15, 23, 42>>))
    /\ img' = Len(heap) + 1
    /\ draw' = Len(heap) + 1
    /\ pc' = "v1_fonts"
    /\ UNCHANGED <<v1frame, overlay, overlay2, fonts, file, writes>>

\* try: four truetype loads; except: four load_default()
V1LoadFonts ==
    /\ pc = "v1_fonts"
    /\ Step("fonts")
    /\ fonts' = IF env.bold /\ env.regular
                THEN [name |-> Bold(72), title |-> Regular(36), subtitle |-> Regular(24),
                      logo |-> Bold(160)]
                ELSE [name |-> Default, title |-> Default, subtitle |-> Default, logo |-> Default]
    /\ pc' = "v1_overlay"
    /\ UNCHANGED <<v1frame, heap, img, draw, overlay, overlay2, file, writes>>

Filled(p1, p2, fill) == Layer("rectangle", <<p1, p2>>, fill, 0, "", "")

\* overlay = Image.new('RGBA', ...); three filled rectangles
V1Overlay ==
    /\ pc = "v1_overlay"
    /\ Step("overlay")
    /\ heap' = Append(heap, DrawOn(<<ImageNew("RGBA", CanvasSize, <<0, 0, 0, 0>>)>>, 1,
                   << Filled(Px(0, 0), Px(400, 630), <<102, 126, 234, 25>>),
                      Filled(Px(400, 0), Px(800, 630), <<14, 165, 233, 38>>),
                      Filled(Px(800, 0), Px(1200, 630), <<244, 114, 182, 25>>) >>)[1])
    /\ overlay' = Len(heap) + 1
    /\ pc' = "v1_composite"
    /\ UNCHANGED <<v1frame, img, draw, overlay2, fonts, file, writes>>

\* img = Image.alpha_composite(img.convert('RGBA'), overlay).convert('RGB');
\* draw = ImageDraw.Draw(img)
V1Composite ==
    /\ pc = "v1_composite"
    /\ Step("composite")
    /\ heap[img].size = heap[overlay].size
    /\ heap' = Append(heap, Convert(AlphaComposite(Convert(heap[img], "RGBA"), heap[overlay]), "RGB"))
    /\ img' = Len(heap) + 1
    /\ draw' = Len(heap) + 1
    /\ pc' = "v1_logo"
    /\ UNCHANGED <<v1frame, overlay, overlay2, fonts, file, writes>>

\* draw.text((160, 240), 'JW', font=font_logo, fill='#0ea5e9')
V1DrawLogo ==
    /\ pc = "v1_logo"
    /\ Step("logo")
    /\ heap' = DrawOn(heap, draw, <<Text(Px(160, 240), "JW", fonts.logo, <<14, 165, 233>>)>>)
    /\ pc' = "v1_text"
    /\ UNCHANGED <<v1frame, img, draw, overlay, overlay2, fonts, file, writes>>

V1TextLines(f) ==
    << Text(Px(450, 240), "Josh Wentworth", f.name, <<255, 255, 255>>),
       Text(Px(450, 340), "Multidisciplinary Engineer", f.title, <<148, 163, 184>>),
       Text(Px(450, 400), "Software x Hardware x Fabrication", f.subtitle, <<14, 165, 233>>) >>

V1DrawText ==
    /\ pc = "v1_text"
    /\ Step("text")
    /\ heap' = DrawOn(heap, draw, V1TextLines(fonts))
    /\ pc' = "v1_accents"
    /\ UNCHANGED <<v1frame, img, draw, overlay, overlay2, fonts, file, writes>>

\* overlay2 = Image.new('RGBA', ...); two filled ellipses
V1Accents ==
    /\ pc = "v1_accents"
    /\ Step("accents")
    /\ heap' = Append(heap, DrawOn(<<ImageNew("RGBA", CanvasSize, <<0, 0, 0, 0>>)>>, 1,
                   << Ellipse(Px(1040, 470), Px(1160, 590), <<102, 126, 234, 13>>),
                      Ellipse(Px(60, 40), Px(140, 120), <<14, 165, 233, 13>>) >>)[1])
    /\ overlay2' = Len(heap) + 1
    /\ pc' = "v1_composite2"
    /\ UNCHANGED <<v1frame, img, draw, overlay, fonts, file, writes>>

\* img = Image.alpha_composite(img.convert('RGBA'), overlay2).convert('RGB')
V1Composite2 ==
    /\ pc = "v1_composite2"
    /\ Step("composite2")
    /\ heap[img].size = heap[overlay2].size
    /\ heap' = Append(heap, Convert(AlphaComposite(Convert(heap[img], "RGBA"), heap[overlay2]), "RGB"))
    /\ img' = Len(heap) + 1
    /\ pc' = "v1_save"
    /\ UNCHANGED <<v1frame, draw, overlay, overlay2, fonts, file, writes>>

\* img.save('web/static/banner.jpg', 'JPEG', quality=95, optimize=True)
V1Save ==
    /\ pc = "v1_save"
    /\ Step("save")
    /\ \/ /\ env.outDir
          /\ file' = <<Jpeg(heap[img])>>
          /\ writes' = writes + 1
          /\ pc' = "done"
       \/ /\ ~env.outDir
          /\ pc' = "crashed"
          /\ UNCHANGED <<file, writes>>
    /\ UNCHANGED <<v1frame, heap, img, draw, overlay, overlay2, fonts>>

----------------------------------------------------------------------------

Next ==
    \/ NewCanvas \/ DrawGradient \/ Composite \/ DrawIcons
    \/ LogoOpen \/ LogoResize \/ LogoGlow \/ PasteGlow \/ PasteLogo \/ Fallback
    \/ LoadFonts \/ DrawText \/ Flatten \/ Save
    \/ V1NewCanvas \/ V1LoadFonts \/ V1Overlay \/ V1Composite \/ V1DrawLogo \/ V1DrawText
    \/ V1Accents \/ V1Composite2 \/ V1Save
    \/ Rerun

Spec == Init /\ [][Next]_vars

----------------------------------------------------------------------------
(* draw_icon called alone, on a fresh canvas, with arguments from bounded sets *)

Sizes == (1..MaxSize) \cup {24, 28, 32, 36, 40, 48, 56, 64, 200}
Anchors == {<<-5, 0>>, <<80, 80>>, <<1100, 520>>}
TypeTags == IconTypes \cup {"gear", ""}

IconInit ==
    /\ script = "icon"
    /\ pc = "start"
    /\ env = [logo |-> LogoFile("missing", 0, 0), fault |-> "none", bold |-> TRUE,
              regular |-> TRUE, outDir |-> TRUE]
    /\ rnd = 0
    /\ heap = <<ImageNew("RGBA", CanvasSize, <<15, 23, 42, 255>>)>>
    /\ img = 1 /\ draw = 1 /\ gradient = 0 /\ logo = 0 /\ glow = 0 /\ img_rgb = 0
    /\ overlay = 0 /\ overlay2 = 0
    /\ fonts = [logo |-> NoFont, name |-> NoFont, title |-> NoFont, subtitle |-> NoFont]
    /\ k = 1
    /\ file = <<>>
    /\ writes = 0
    /\ trace = <<>>
    /\ run = 1 /\ prevFile = <<>> /\ prevTrace = <<>> /\ prevHeap = <<>> /\ prevRnd = 0
    /\ \E a \in Anchors, size \in Sizes, t \in TypeTags, op \in 0..OpacityDen :
          args = Icon(a[1], a[2], size, t, <<102, 126, 234>>, op)
    /\ issued = <<>>

\* draw_icon(draw, x, y, size, icon_type, color, opacity)
CallDrawIcon ==
    /\ script = "icon" /\ pc = "start"
    /\ issued' = IconCalls(args)
    /\ heap' = DrawOn(heap, draw, IconCalls(args))
    /\ pc' = "returned"
    /\ UNCHANGED <<script, env, rnd, img, draw, gradient, logo, glow, img_rgb, overlay,
                   overlay2, fonts, k, file, writes, trace, run, prevFile, prevTrace, prevHeap, prevRnd, args>>

IconNext == CallDrawIcon

IconSpec == IconInit /\ [][IconNext]_vars

----------------------------------------------------------------------------
(* Properties *)

Finished == pc \in {"done", "crashed"}
Written == file[1]
Count(seq, name) == Cardinality({j \in 1..Len(seq) : seq[j] = name})
LogoFailed == "fallback" \in Range(trace)

\* C1: every icon of icon_positions is drawn on the canvas that is flattened and
\* written, so the written image holds every stroke draw_icon issued.
C1_IconsOnWrittenImage ==
    (script = "v2" /\ pc = "done") =>
        \A j \in 1..Len(icon_positions) :
            Range(IconCalls(icon_positions[j])) \subseteq Range(Written.layers)

\* C2: when the logo file cannot be loaded and the bold font is there, the written
\* image holds the 'JW' mark.
C2_FallbackMarkOnWrittenImage ==
    (script = "v2" /\ pc = "done" /\ env.logo.kind # "ok" /\ env.bold) =>
        \E l \in Range(Written.layers) : l.kind = "text" /\ l.text = "JW"

GradientAlphas == [c \in 1..width |-> heap[gradient].layers[1].cols[c][4]]

\* C3: the alpha of the center column (i = 600) is at least the alpha of column 0
\* and of column 1199, and alpha does not increase with the distance from the center.
C3_CenterMostOpaque ==
    (script = "v2" /\ gradient # 0) =>
        LET alpha == GradientAlphas
        IN  /\ alpha[600 + 1] >= alpha[0 + 1]
            /\ alpha[600 + 1] >= alpha[1199 + 1]
            /\ \A i \in 0..1198 : IF i >= 600 THEN alpha[i + 2] <= alpha[i + 1]
                                              ELSE alpha[i + 1] <= alpha[i + 2]

\* C4: no failure of the logo steps, and no missing fallback font, ends the run: the
\* only step that can end a run in an error is the save; a run that has not ended
\* always has a next step, every ended run has drawn the text and flattened once,
\* and every completed run has written the file exactly once.
C4_LogoFailureNeverTerminates ==
    script = "v2" =>
        /\ ~Finished => ENABLED Next
        /\ pc = "crashed" => trace[Len(trace)] = "save"
        /\ Finished => Count(trace, "text") = 1 /\ Count(trace, "flatten") = 1
        /\ writes <= 1
        /\ pc = "done" => writes = 1

C4_Witness ==
    script = "v2" /\ pc = "done" /\ LogoFailed /\ ~env.bold /\ env.fault = "paste_glow_2" /\ writes = 1

\* C5: every endpoint of every draw call of draw_icon lies in
\* [x, x+size] x [y, y+size] (coordinates in 64ths of a pixel).
C5_StrokesInsideBox ==
    (script = "icon" /\ pc = "returned") =>
        \A l \in Range(issued) : \A p \in Range(l.pts) :
            /\ 64 * args.x <= p[1] /\ p[1] <= 64 * (args.x + args.size)
            /\ 64 * args.y <= p[2] /\ p[2] <= 64 * (args.y + args.size)

C5_Witness ==
    script = "icon" /\ pc = "returned" /\ args.type = "resistor" /\ args.size = 1
    /\ args.x = -5 /\ Len(issued) = 7

\* C6: the canvas is 1200 x 630 as long as it exists and the written image is
\* 1200 x 630, in both scripts, whatever the logo's size and whether it loaded.
C6_FixedDimensions ==
    /\ (script \in {"v1", "v2"} /\ img # 0) => heap[img].size = <<1200, 630>>
    /\ file # <<>> => Written.size = <<1200, 630>>

C6_Witness ==
    script = "v2" /\ pc = "done" /\ env.logo.w = 4000 /\ env.fault = "none"
    /\ logo # 0 /\ writes = 1 /\ Written.size = <<1200, 630>>

\* C7: a second run on the same file system executes the same steps, builds the same
\* images and leaves the same file as the first, whatever the random module's state.
C7_RerunIdentical ==
    (run > 1 /\ Finished) => trace = prevTrace /\ heap = prevHeap /\ file = prevFile

C7_Witness ==
    script = "v2" /\ run = 2 /\ pc = "done" /\ rnd # prevRnd /\ env.logo.kind = "ok"
    /\ file # <<>> /\ file = prevFile

PhaseOf(step) ==
    CASE step = "canvas" -> 1
      [] step = "gradient" -> 2
      [] step = "composite" -> 3
      [] step = "icon" -> 4
      [] step \in {"logo_open", "resize", "blur", "paste_glow", "paste_logo", "fallback"} -> 5
      [] step \in {"fonts", "text"} -> 6
      [] step = "flatten" -> 7
      [] step = "save" -> 8
      [] OTHER -> 0

OnceSteps == {"canvas", "gradient", "composite", "logo_open", "resize", "blur", "paste_logo",
              "fallback", "fonts", "text", "flatten", "save"}

\* C8: the steps of a v2 run occur in the order canvas, gradient, composite, icons,
\* logo or fallback, text, flatten, save, none more often than the code has it; the
\* file is written only as the last step after all the others, and a run that ended
\* in an error wrote nothing.
C8_LinearOrder ==
    script = "v2" =>
        /\ \A i \in 1..(Len(trace) - 1) : PhaseOf(trace[i]) <= PhaseOf(trace[i + 1])
        /\ \A i \in 1..Len(trace) : PhaseOf(trace[i]) > 0
        /\ \A s \in OnceSteps : Count(trace, s) <= 1
        /\ Count(trace, "icon") <= 8 /\ Count(trace, "paste_glow") <= 3
        /\ writes > 0 => /\ {PhaseOf(trace[i]) : i \in 1..Len(trace)} = 1..8
                         /\ Count(trace, "icon") = 8
                         /\ Count(trace, "text") = 1
                         /\ trace[Len(trace)] = "save"
                         /\ writes = 1
        /\ pc = "crashed" => writes = 0

C8_Witness ==
    script = "v2" /\ pc = "done" /\ writes = 1 /\ Count(trace, "paste_glow") = 3

IssuedAlphas == {issued[j].fill[4] : j \in 1..Len(issued)}

\* C9 as stated: the stroke colour's alpha is opacity * 255 rounded to the nearest integer
C9_AlphaIsRounded ==
    (script = "icon" /\ pc = "returned") =>
        \A a \in IssuedAlphas : 2 * Abs(100 * a - 255 * args.op) <= 100

\* C9 amended: the stroke colour's alpha is opacity * 255 truncated to an integer,
\* a value in 0..255 (opacity = args.op / 100)
C9_AlphaIsTruncated ==
    (script = "icon" /\ pc = "returned") =>
        \A a \in IssuedAlphas :
            /\ a \in 0..255
            /\ 100 * a <= 255 * args.op /\ 255 * args.op < 100 * (a + 1)

C9_Witness ==
    script = "icon" /\ pc = "returned" /\ args.op = 12 /\ IssuedAlphas = {30}

Kinds(calls) == [j \in 1..Len(calls) |-> <<calls[j].kind, Len(calls[j].pts)>>]
Rect == <<"rectangle", 2>>
Seg == <<"line", 2>>

\* C10: for a type tag outside the four, draw_icon issues no draw call, returns and
\* leaves the canvas as it was; for each of the four tags it issues the calls of that
\* glyph only, and the canvas gains exactly the calls issued.
C10_UnknownTypeNoOp ==
    (script = "icon" /\ pc = "returned") =>
        /\ heap[draw].layers = issued
        /\ args.type \notin IconTypes => issued = <<>>
        /\ args.type = "chip" => Kinds(issued) = <<Rect, Rect, Seg, Seg, Seg, Seg, Seg, Seg, Seg, Seg>>
        /\ args.type = "terminal" => Kinds(issued) = <<Rect, <<"line", 3>>, Seg>>
        /\ args.type = "wave" => Kinds(issued) = <<Rect, <<"line", 9>>>>
        /\ args.type = "resistor" => Kinds(issued) = <<Rect, Seg, Seg, Seg, Seg, Seg, Seg>>

C10_Witness ==
    script = "icon" /\ pc = "returned" /\ args.type = "gear" /\ issued = <<>>
    /\ heap[draw].layers = <<>>

====
